---- MODULE Spec2Model ----
(***************************************************************************)
(* DrgPoRep (storage-proofs/src/drgporep.rs): replicate / extract / prove  *)
(* / verify over a depth-robust graph, with the collaborators the driver   *)
(* calls (field codec, hasher, graph, Merkle proof, VDE) modelled from     *)
(* their description in the specification, scaled to a small prime field.  *)
(***************************************************************************)
EXTENDS Integers, Sequences, FiniteSets, TLC

\* ------------------------------------------------------------------ bounds
\* Graph sizes range over 2..MaxN.
MaxN == 3
\* Challenge lists have at most MaxChallenges entries.
MaxChallenges == 2
\* Base in-degree of the graph (DrgParams.degree).
degree == 2
\* Graph seeds and replica identifiers the protocol specification starts from.
Seeds == {0, 1}
ReplicaIds == {1, 2}

\* ------------------------------------------------------- fixed parameters
\* Rounds of sloth, as every test of the driver sets it.
sloth_iter == 1
\* Node width in bytes (PublicParams.lambda), scaled from 32.
lambda == 2
\* The scalar field Fr, scaled to a small prime.
Modulus == 5
\* One byte holds a digit 0..ByteBase-1 (scaled from 256).
ByteBase == 4
\* Exponent of one sloth decoding round and its inverse modulo Modulus - 1.
SlothDecodeExp == 3
SlothEncodeExp == 3

Fr == 0 .. (Modulus - 1)
Byte == 0 .. (ByteBase - 1)

\* ------------------------------------------------------------ small helpers
RECURSIVE Power(_, _)
Power(b, e) == IF e = 0 THEN 1 ELSE b * Power(b, e - 1)

RECURSIVE Concat(_)
Concat(ss) == IF ss = <<>> THEN <<>> ELSE Head(ss) \o Concat(Tail(ss))

Ok(v) == [ok |-> TRUE, val |-> v]
Err == [ok |-> FALSE, val |-> <<>>]

\* ------------------------------------------------- 4.A field-element codec
\* Little-endian value of a byte block.
RECURSIVE LeValue(_)
LeValue(bytes) ==
    IF bytes = <<>> THEN 0 ELSE Head(bytes) + ByteBase * LeValue(Tail(bytes))

\* Domain::into_bytes: lambda bytes, least significant first.
into_bytes(x) == [k \in 1 .. lambda |-> (x \div Power(ByteBase, k - 1)) % ByteBase]

\* Domain::try_from_bytes: exactly lambda bytes holding a canonical value.
try_from_bytes(bytes) ==
    IF Len(bytes) = lambda /\ LeValue(bytes) < Modulus
    THEN Ok(LeValue(bytes))
    ELSE Err

\* util::data_at_node: the lambda bytes of node v, or an error past the end.
data_at_node(buf, v, l) ==
    IF v * l + l > Len(buf) THEN Err ELSE Ok(SubSeq(buf, v * l + 1, v * l + l))

\* ------------------------------------------------------ 4.B hasher capability
\* H::kdf: a deterministic function of the input bytes (and of the degree).
RECURSIVE WeightedSum(_, _)
WeightedSum(bytes, k) ==
    IF bytes = <<>> THEN 0 ELSE k * Head(bytes) + WeightedSum(Tail(bytes), k + 1)

kdf(bytes, m) == (WeightedSum(bytes, 1) + m) % Modulus

PowMod(x, e) == Power(x, e) % Modulus

\* H::sloth_encode: `iter` rounds of add-key, then the inverse power map.
RECURSIVE sloth_encode(_, _, _)
sloth_encode(key, x, iter) ==
    IF iter = 0 THEN x
    ELSE sloth_encode(key, PowMod((x + key) % Modulus, SlothEncodeExp), iter - 1)

\* H::sloth_decode: `iter` rounds of the power map, then subtract-key.
RECURSIVE sloth_decode(_, _, _)
sloth_decode(key, c, iter) ==
    IF iter = 0 THEN c
    ELSE sloth_decode(key, (PowMod(c, SlothDecodeExp) + Modulus - key) % Modulus, iter - 1)

\* ------------------------------------------------------------ 4.C DRG graph
\* G::new(nodes, degree, expansion_degree = 0, seed).
Graph(n, d, s) == [nodes |-> n, degree |-> d, seed |-> s]

\* graph.parents(v): `degree` parents, each below v, fixed by the seed; none for 0.
parents(G, v) ==
    IF v = 0 THEN <<>>
    ELSE [k \in 1 .. G.degree |-> (G.seed * k + (k - 1)) % v]

\* ---------------------------------------------------------- 4.D Merkle proof
\* Hashes are symbolic terms, so that distinct inputs never collide.
LeafHash(block) == <<block>>
NodeHash(l, r) == <<l, r>>

\* One level up: an odd last node is paired with itself.
NextLevel(row) ==
    LET padded == IF Len(row) % 2 = 1 THEN Append(row, row[Len(row)]) ELSE row
    IN  [k \in 1 .. (Len(padded) \div 2) |-> NodeHash(padded[2 * k - 1], padded[2 * k])]

RECURSIVE LevelsFrom(_)
LevelsFrom(row) ==
    IF Len(row) <= 1 THEN <<row>> ELSE <<row>> \o LevelsFrom(NextLevel(row))

\* graph.merkle_tree(buf, lambda): every level of the tree, leaves first.
merkle_tree(G, buf, l) ==
    LevelsFrom([v \in 1 .. (Len(buf) \div l) |-> LeafHash(SubSeq(buf, (v - 1) * l + 1, v * l))])

root(tree) == tree[Len(tree)][1]

\* tree.gen_proof(v) as a MerkleProof: siblings from leaf to root, is_right
\* telling that the proven node is the right child at that level.
gen_proof(tree, v) ==
    LET pos(j) == v \div Power(2, j - 1)
        sib(j) ==
            LET row == tree[j]
                s == IF pos(j) % 2 = 1 THEN pos(j) - 1 ELSE pos(j) + 1
            IN  IF s + 1 > Len(row) THEN row[Len(row)] ELSE row[s + 1]
    IN  [path |-> [j \in 1 .. (Len(tree) - 1) |->
                      [hash |-> sib(j), is_right |-> (pos(j) % 2 = 1)]],
         root |-> root(tree),
         leaf |-> tree[1][v + 1]]

\* The node index a path's orientation flags spell out.
RECURSIVE path_index(_)
path_index(path) ==
    IF path = <<>> THEN 0
    ELSE (IF Head(path).is_right THEN 1 ELSE 0) + 2 * path_index(Tail(path))

\* The root obtained by hashing h up along the path.
RECURSIVE fold_path(_, _)
fold_path(h, path) ==
    IF path = <<>> THEN h
    ELSE fold_path(IF Head(path).is_right THEN NodeHash(Head(path).hash, h)
                                          ELSE NodeHash(h, Head(path).hash),
                   Tail(path))

\* MerkleProof::validate(node).
validate(mp, v) ==
    /\ path_index(mp.path) = v
    /\ fold_path(mp.leaf, mp.path) = mp.root

\* MerkleProof::validate_data(value).
validate_data(mp, x) ==
    /\ LeafHash(into_bytes(x)) = mp.leaf
    /\ fold_path(mp.leaf, mp.path) = mp.root

\* ----------------------------------------------------------- 4.E VDE pipeline
\* replica_id bytes followed by the bytes of the parents as the buffer holds them.
RECURSIVE key_bytes(_, _, _)
key_bytes(acc, ps, buf) ==
    IF ps = <<>> THEN Ok(acc)
    ELSE LET b == data_at_node(buf, Head(ps), lambda)
         IN  IF b.ok THEN key_bytes(acc \o b.val, Tail(ps), buf) ELSE Err

create_key(G, id, v, buf) ==
    LET kb == key_bytes(into_bytes(id), parents(G, v), buf)
    IN  IF kb.ok THEN Ok(kdf(kb.val, G.degree)) ELSE Err

\* Bytes of buf with node v overwritten by block.
write_node(buf, v, block) ==
    [k \in 1 .. Len(buf) |->
        IF k > v * lambda /\ k <= v * lambda + lambda THEN block[k - v * lambda] ELSE buf[k]]

\* vde::encode from node v on: ascending, in place; node 0 is left alone.
\* An error stops the pass and leaves the nodes below v encoded.
RECURSIVE encode_from(_, _, _, _, _)
encode_from(G, iter, id, buf, v) ==
    IF v >= G.nodes THEN [ok |-> TRUE, data |-> buf]
    ELSE LET key == create_key(G, id, v, buf)
             blk == data_at_node(buf, v, lambda)
             x == IF blk.ok THEN try_from_bytes(blk.val) ELSE Err
         IN  IF ~key.ok \/ ~x.ok THEN [ok |-> FALSE, data |-> buf]
             ELSE encode_from(G, iter, id,
                              write_node(buf, v, into_bytes(sloth_encode(key.val, x.val, iter))),
                              v + 1)

encode(G, iter, id, buf) == encode_from(G, iter, id, buf, 1)

\* vde::decode_block: node v decoded from the replica, which is only read.
decode_block(G, iter, id, buf, v) ==
    LET key == create_key(G, id, v, buf)
        blk == data_at_node(buf, v, lambda)
        c == IF blk.ok THEN try_from_bytes(blk.val) ELSE Err
    IN  IF ~key.ok \/ ~c.ok THEN Err ELSE Ok(sloth_decode(key.val, c.val, iter))

\* vde::decode: nodes N-1 .. 1 decoded from their still-encoded parents into a
\* fresh buffer; node 0 was never encoded.
RECURSIVE decode_from(_, _, _, _, _)
decode_from(G, iter, id, buf, v) ==
    IF v >= G.nodes THEN Ok(<<>>)
    ELSE LET x == decode_block(G, iter, id, buf, v)
             rest == decode_from(G, iter, id, buf, v + 1)
         IN  IF ~x.ok \/ ~rest.ok THEN Err ELSE Ok(into_bytes(x.val) \o rest.val)

decode(G, iter, id, buf) ==
    LET first == data_at_node(buf, 0, lambda)
        rest == decode_from(G, iter, id, buf, 1)
    IN  IF ~first.ok \/ ~rest.ok THEN Err ELSE Ok(first.val \o rest.val)

\* ------------------------------------------------------------ 4.F the driver
None == <<>>
Some(x) == <<x>>

\* DrgPoRep::setup.
setup(sp) ==
    [lambda |-> sp.lambda,
     graph |-> Graph(sp.drg.nodes, sp.drg.degree, sp.drg.seed),
     sloth_iter |-> sp.sloth_iter]

\* DrgPoRep::replicate: the plaintext tree, the encoding in place, the replica tree.
replicate(params, id, bytes) ==
    LET tree_d == merkle_tree(params.graph, bytes, params.lambda)
        enc == encode(params.graph, params.sloth_iter, id, bytes)
        tree_r == merkle_tree(params.graph, enc.data, params.lambda)
    IN  IF ~enc.ok
        THEN [ok |-> FALSE, data |-> enc.data, tau |-> None, aux |-> None]
        ELSE [ok |-> TRUE, data |-> enc.data,
              tau |-> Some([comm_d |-> root(tree_d), comm_r |-> root(tree_r)]),
              aux |-> Some([tree_d |-> tree_d, tree_r |-> tree_r])]

\* extract_all that decodes with no sloth rounds.
extract_all_no_rounds(params, id, bytes) ==
    decode(params.graph, 0, id, bytes)

\* DrgPoRep::extract_all.
extract_all(params, id, bytes) ==
    decode(params.graph, params.sloth_iter, id, bytes)

\* extract that hands back the node as the replica holds it.
extract_undecoded(params, id, bytes, v) ==
    data_at_node(bytes, v, params.lambda)

\* DrgPoRep::extract.
extract(params, id, bytes, v) ==
    LET x == decode_block(params.graph, params.sloth_iter, id, bytes, v)
    IN  IF x.ok THEN Ok(into_bytes(x.val)) ELSE Err

\* The flags compared with the bits of c from the most significant end.
path_matches_msb(path, c) ==
    \A j \in 1 .. Len(path) :
        path[j].is_right = (((c \div Power(2, Len(path) - j)) % 2) = 1)

\* DataProof::proves_challenge.
RECURSIVE path_matches(_, _)
path_matches(path, c) ==
    IF path = <<>> THEN TRUE
    ELSE IF ((c % 2) = 1) # Head(path).is_right THEN FALSE
    ELSE path_matches(Tail(path), c \div 2)

\* proves_challenge without `c >>= 1`: every level is compared with bit 0.
proves_challenge_noshift(dp, challenge) ==
    \A j \in 1 .. Len(dp.proof.path) : ((challenge % 2) = 1) = dp.proof.path[j].is_right

proves_challenge(dp, challenge) == path_matches(dp.proof.path, challenge)

\* open_parents with the parents opened in the plaintext tree.
RECURSIVE open_parents_tree_d(_, _, _)
open_parents_tree_d(ps, priv, l) ==
    IF ps = <<>> THEN Ok(<<>>)
    ELSE LET blk == data_at_node(priv.replica, Head(ps), l)
             x == IF blk.ok THEN try_from_bytes(blk.val) ELSE Err
             rest == open_parents_tree_d(Tail(ps), priv, l)
         IN  IF ~x.ok \/ ~rest.ok THEN Err
             ELSE Ok(<<<<Head(ps),
                        [proof |-> gen_proof(priv.aux.tree_d, Head(ps)), data |-> x.val]>>>>
                     \o rest.val)

\* The (index, DataProof) entries prove pushes for a list of parents.
RECURSIVE open_parents(_, _, _)
open_parents(ps, priv, l) ==
    IF ps = <<>> THEN Ok(<<>>)
    ELSE LET blk == data_at_node(priv.replica, Head(ps), l)
             x == IF blk.ok THEN try_from_bytes(blk.val) ELSE Err
             rest == open_parents(Tail(ps), priv, l)
         IN  IF ~x.ok \/ ~rest.ok THEN Err
             ELSE Ok(<<<<Head(ps),
                        [proof |-> gen_proof(priv.aux.tree_r, Head(ps)), data |-> x.val]>>>>
                     \o rest.val)

\* One pass of prove's loop body for an already reduced, non-zero challenge.
prove_node(params, pub, priv, challenge) ==
    LET blk == data_at_node(priv.replica, challenge, params.lambda)
        x == IF blk.ok THEN try_from_bytes(blk.val) ELSE Err
        ps == open_parents(parents(params.graph, challenge), priv, params.lambda)
        extracted == decode_block(params.graph, params.sloth_iter, pub.replica_id,
                                  priv.replica, challenge)
    IN  IF ~x.ok \/ ~ps.ok \/ ~extracted.ok THEN Err
        ELSE Ok([replica_node |-> [proof |-> gen_proof(priv.aux.tree_r, challenge),
                                   data |-> x.val],
                 replica_parents |-> ps.val,
                 node |-> [proof |-> gen_proof(priv.aux.tree_d, challenge),
                           data |-> extracted.val]])

EmptyProof == [replica_nodes |-> <<>>, replica_parents |-> <<>>, nodes |-> <<>>]

\* prove without the assertion on the reduced challenge.
RECURSIVE prove_from_noassert(_, _, _, _, _)
prove_from_noassert(params, pub, priv, i, acc) ==
    IF i > Len(pub.challenges) THEN [status |-> "ok", at |-> 0, proof |-> acc]
    ELSE LET challenge == pub.challenges[i] % params.graph.nodes
             e == prove_node(params, pub, priv, challenge)
         IN  IF ~e.ok THEN [status |-> "err", at |-> i, proof |-> EmptyProof]
             ELSE prove_from_noassert(params, pub, priv, i + 1,
                     [replica_nodes |-> Append(acc.replica_nodes, e.val.replica_node),
                      replica_parents |-> Append(acc.replica_parents, e.val.replica_parents),
                      nodes |-> Append(acc.nodes, e.val.node)])

\* DrgPoRep::prove from challenge position i on. status is "ok" with the
\* proof, "panic" when the assertion at position `at` fails, "err" on a
\* propagated error.
RECURSIVE prove_from(_, _, _, _, _)
prove_from(params, pub, priv, i, acc) ==
    IF i > Len(pub.challenges) THEN [status |-> "ok", at |-> 0, proof |-> acc]
    ELSE LET challenge == pub.challenges[i] % params.graph.nodes
             e == prove_node(params, pub, priv, challenge)
         IN  IF challenge = 0 THEN [status |-> "panic", at |-> i, proof |-> EmptyProof]
             ELSE IF ~e.ok THEN [status |-> "err", at |-> i, proof |-> EmptyProof]
             ELSE prove_from(params, pub, priv, i + 1,
                     [replica_nodes |-> Append(acc.replica_nodes, e.val.replica_node),
                      replica_parents |-> Append(acc.replica_parents, e.val.replica_parents),
                      nodes |-> Append(acc.nodes, e.val.node)])

prove(params, pub, priv) == prove_from(params, pub, priv, 1, EmptyProof)

\* The key input verify folds: replica_id bytes, then each parent's data bytes.
RECURSIVE fold_parent_data(_, _)
fold_parent_data(acc, rps) ==
    IF rps = <<>> THEN acc
    ELSE fold_parent_data(acc \o into_bytes(Head(rps)[2].data), Tail(rps))

\* The first block of verify's loop body ("this was verify_proof_meta") for
\* position i: "ok", "false", or "panic" on an index past the end of a vector.
verify_proof_meta(params, pub, prf, i) ==
    LET c == pub.challenges[i]
        expected_parents == parents(params.graph, c)
        rps == prf.replica_parents[i]
    IN  IF c >= params.graph.nodes THEN "false"
        ELSE IF i > Len(prf.nodes) THEN "panic"
        ELSE IF ~proves_challenge(prf.nodes[i], c) THEN "false"
        ELSE IF i > Len(prf.replica_nodes) THEN "panic"
        ELSE IF ~proves_challenge(prf.replica_nodes[i], c) THEN "false"
        ELSE IF i > Len(prf.replica_parents) THEN "panic"
        ELSE IF Len(rps) # Len(expected_parents) THEN "false"
        ELSE IF \E k \in 1 .. Len(rps) : rps[k][1] # expected_parents[k] THEN "false"
        ELSE "ok"

\* verify_openings with each parent proof checked against its own data
\* instead of its claimed index.
verify_openings_unindexed(params, pub, prf, i) ==
    LET challenge == pub.challenges[i] % params.graph.nodes
        rps == prf.replica_parents[i]
        key == kdf(fold_parent_data(into_bytes(pub.replica_id), rps), params.graph.degree)
        unsealed == sloth_decode(key, prf.replica_nodes[i].data, params.sloth_iter)
    IN  IF challenge = 0 THEN "panic"
        ELSE IF ~validate(prf.replica_nodes[i].proof, challenge) THEN "false"
        ELSE IF \E k \in 1 .. Len(rps) : ~validate_data(rps[k][2].proof, rps[k][2].data)
             THEN "false"
        ELSE IF unsealed # prf.nodes[i].data THEN "false"
        ELSE IF ~validate_data(prf.nodes[i].proof, unsealed) THEN "false"
        ELSE "ok"

\* verify_openings that takes the data opening at its word: the node's proof
\* is validated against the node's own data, and nothing is decoded.
verify_openings_undecoded(params, pub, prf, i) ==
    LET challenge == pub.challenges[i] % params.graph.nodes
        rps == prf.replica_parents[i]
    IN  IF challenge = 0 THEN "panic"
        ELSE IF ~validate(prf.replica_nodes[i].proof, challenge) THEN "false"
        ELSE IF \E k \in 1 .. Len(rps) : ~validate(rps[k][2].proof, rps[k][1]) THEN "false"
        ELSE IF ~validate_data(prf.nodes[i].proof, prf.nodes[i].data) THEN "false"
        ELSE "ok"

\* The rest of the loop body for position i: the assertion, the replica-side
\* Merkle proofs, the key, the decoding and the data-side Merkle proof.
verify_openings(params, pub, prf, i) ==
    LET challenge == pub.challenges[i] % params.graph.nodes
        rps == prf.replica_parents[i]
        key == kdf(fold_parent_data(into_bytes(pub.replica_id), rps), params.graph.degree)
        unsealed == sloth_decode(key, prf.replica_nodes[i].data, params.sloth_iter)
    IN  IF challenge = 0 THEN "panic"
        ELSE IF ~validate(prf.replica_nodes[i].proof, challenge) THEN "false"
        ELSE IF \E k \in 1 .. Len(rps) : ~validate(rps[k][2].proof, rps[k][1]) THEN "false"
        ELSE IF unsealed # prf.nodes[i].data THEN "false"
        ELSE IF ~validate_data(prf.nodes[i].proof, unsealed) THEN "false"
        ELSE "ok"

\* A loop that stops one position early.
verify_range_short(pub) == 1 .. (Len(pub.challenges) - 1)

\* The positions verify's loop visits.
verify_range(pub) == 1 .. Len(pub.challenges)

\* DrgPoRep::verify from challenge position i on: "true", "false", or "panic"
\* (an index past the end of a proof vector, or the assertion on challenge 0).
RECURSIVE verify_from(_, _, _, _)
verify_from(params, pub, prf, i) ==
    IF i \notin verify_range(pub) THEN "true"
    ELSE LET meta == verify_proof_meta(params, pub, prf, i)
             rest == verify_openings(params, pub, prf, i)
         IN  IF meta # "ok" THEN meta
             ELSE IF rest # "ok" THEN rest
             ELSE verify_from(params, pub, prf, i + 1)

verify(params, pub, prf) == verify_from(params, pub, prf, 1)

\* ------------------------------------------------------- 6. serialized proofs
\* Width in bytes of a serialized u32.
U32Bytes == 4

\* A hash as lambda bytes: the symbolic term digested into the byte range.
RECURSIVE hash_value(_)
hash_value(h) ==
    IF Len(h) = 1 THEN (LeValue(h[1]) + 1) % Power(ByteBase, lambda)
    ELSE (3 * hash_value(h[1]) + 7 * hash_value(h[2]) + 1) % Power(ByteBase, lambda)

hash_bytes(h) == into_bytes(hash_value(h))

\* MerkleProof::serialize (path_bytes): per level the sibling hash and the
\* orientation byte.
MerkleProof_serialize(mp) ==
    Concat([j \in 1 .. Len(mp.path) |->
               hash_bytes(mp.path[j].hash) \o <<IF mp.path[j].is_right THEN 1 ELSE 0>>])

\* DataProof::serialize: the Merkle proof's bytes, then data written little-endian.
DataProof_serialize(dp) == MerkleProof_serialize(dp.proof) \o into_bytes(dp.data)

\* WriteBytesExt::write_u32::<LittleEndian>(n as u32): the bytes it writes.
write_u32(n) ==
    [k \in 1 .. U32Bytes |->
        ((n % Power(ByteBase, U32Bytes)) \div Power(ByteBase, k - 1)) % ByteBase]

\* `let mut v = vec![0u8; 4]; v.write_u32::<LittleEndian>(*s as u32)`: writing
\* to a Vec appends, so v is the four zero bytes followed by the index bytes.
parent_index_bytes(s) == [k \in 1 .. U32Bytes |-> 0] \o write_u32(s)

\* The fold over replica_parents[i]: per entry v, then the parent's DataProof.
RECURSIVE fold_parent_entries(_, _)
fold_parent_entries(acc, rps) ==
    IF rps = <<>> THEN acc
    ELSE fold_parent_entries(
             (acc \o parent_index_bytes(Head(rps)[1])) \o DataProof_serialize(Head(rps)[2]),
             Tail(rps))

\* Proof::serialize: positions 0 .. nodes.len() - 1 in order; "panic" when
\* replica_nodes or replica_parents is shorter than nodes.
Proof_serialize(prf) ==
    IF Len(prf.replica_nodes) < Len(prf.nodes) \/ Len(prf.replica_parents) < Len(prf.nodes)
    THEN [status |-> "panic", out |-> <<>>]
    ELSE [status |-> "ok",
          out |-> Concat([i \in 1 .. Len(prf.nodes) |->
                     (DataProof_serialize(prf.replica_nodes[i])
                        \o fold_parent_entries(<<>>, prf.replica_parents[i]))
                        \o DataProof_serialize(prf.nodes[i])])]

\* ------------------------------------------------------------------- state
VARIABLES
    pp,           \* PublicParams, as setup returned them
    replica_id,   \* the replica identifier of this sealing
    data,         \* the caller's plaintext, kept for comparison
    replica,      \* the buffer handed to replicate (a copy of data, encoded in place)
    sealed,       \* "no" before replicate, then "ok" or "err"
    tau,          \* Some(Tau) once replicate succeeded
    aux,          \* Some(ProverAux) once replicate succeeded
    extracted,    \* Some([op, node, ret]) after extract / extract_all
    proved,       \* Some([challenges, status, at, proof]) after prove
    presented,    \* Some([kind, proof]): the proof handed to the verifier
    verified,     \* Some([challenges, tau, result]) after verify
    frame,        \* Some([at, tree_d, tree_r]) while a call of replicate is in progress
    wire,         \* Some([status, out]) after Proof::serialize
    asked         \* Some([path, challenge, ret]) after proves_challenge

vars == <<pp, replica_id, data, replica, sealed, tau, aux, extracted, proved,
          presented, verified, frame, wire, asked>>

\* Buffers of n nodes, every node the bytes of a value of vals.
Buffers(n, vals) ==
    { Concat([v \in 1 .. n |-> into_bytes(f[v])]) : f \in [1 .. n -> vals] }

\* Node blocks a caller may hand in: every canonical value and the first
\* non-canonical one.
RawVals == 0 .. Modulus

RECURSIVE ListsUpTo(_, _)
ListsUpTo(S, n) ==
    IF n = 0 THEN {<<>>}
    ELSE LET shorter == ListsUpTo(S, n - 1)
         IN  shorter \cup { Append(l, x) : l \in { m \in shorter : Len(m) = n - 1 }, x \in S }

\* Challenge lists handed to prove: node indices, 0 and the out-of-range N
\* and N + 1 included.
ChallengeLists(n) == ListsUpTo(0 .. (n + 1), MaxChallenges)

\* Challenge lists handed to verify: node indices, 0 and the out-of-range N
\* included, and the prove-time list whatever it holds.
VerifyLists(n) ==
    ListsUpTo(0 .. n, MaxChallenges) \cup
        (IF proved = None THEN {} ELSE {proved[1].challenges})

\* The plaintexts the protocol specification starts from: every node 2 (the
\* buffer of the extract tests), and nodes 2, 3, 4, 0, ...
SampleBuffers(n) ==
    { Concat([v \in 1 .. n |-> into_bytes((2 + b * (v - 1)) % Modulus)]) : b \in {0, 1} }

\* Every buffer of n node blocks, canonical or not.
RawBuffers(n) == Buffers(n, RawVals)

\* The state after setup: `raw` tells whether the caller's buffer is any buffer
\* of node blocks or one of the samples.
InitWith(ids, seeds, raw) ==
    /\ \E n \in 2 .. MaxN, s \in seeds :
          /\ pp = setup([lambda |-> lambda,
                         drg |-> [nodes |-> n, degree |-> degree, seed |-> s],
                         sloth_iter |-> sloth_iter])
          /\ data \in (IF raw THEN RawBuffers(n) ELSE SampleBuffers(n))
    /\ replica_id \in ids
    /\ replica = data
    /\ sealed = "no"
    /\ tau = None
    /\ aux = None
    /\ extracted = None
    /\ proved = None
    /\ presented = None
    /\ verified = None
    /\ frame = None
    /\ wire = None
    /\ asked = None

Init == InitWith(ReplicaIds, Seeds, FALSE)

InitVDE == InitWith(Fr, Seeds, TRUE)

\* replicate(&pp, &replica_id, &mut mmapped_data_copy)
Replicate ==
    /\ sealed = "no"
    /\ LET r == replicate(pp, replica_id, replica)
       IN  /\ replica' = r.data
           /\ sealed' = IF r.ok THEN "ok" ELSE "err"
           /\ tau' = r.tau
           /\ aux' = r.aux
    /\ UNCHANGED <<pp, replica_id, data, extracted, proved, presented, verified,
                   frame, wire, asked>>

\* extract_all(&pp, &replica_id, &mmapped_data_copy)
ExtractAll ==
    /\ sealed = "ok"
    /\ extracted = None
    /\ extracted' = Some([op |-> "extract_all", node |-> 0,
                          ret |-> extract_all(pp, replica_id, replica)])
    /\ UNCHANGED <<pp, replica_id, data, replica, sealed, tau, aux, proved, presented,
                   verified, frame, wire, asked>>

\* extract(&pp, &replica_id, &mmapped_data_copy, v)
Extract(v) ==
    /\ sealed = "ok"
    /\ extracted = None
    /\ extracted' = Some([op |-> "extract", node |-> v,
                          ret |-> extract(pp, replica_id, replica, v)])
    /\ UNCHANGED <<pp, replica_id, data, replica, sealed, tau, aux, proved, presented,
                   verified, frame, wire, asked>>

PrivateInputs == [replica |-> replica, aux |-> aux[1]]

\* prove(&pp, &pub_inputs, &priv_inputs) with the honest replica and trees.
Prove(cs) ==
    /\ sealed = "ok"
    /\ proved = None
    /\ presented = None
    /\ LET r == prove(pp, [replica_id |-> replica_id, challenges |-> cs, tau |-> tau],
                      PrivateInputs)
       IN  /\ proved' = Some([challenges |-> cs, status |-> r.status, at |-> r.at,
                              proof |-> r.proof])
           /\ presented' = IF r.status = "ok"
                           THEN Some([kind |-> "real", proof |-> r.proof])
                           ELSE None
    /\ UNCHANGED <<pp, replica_id, data, replica, sealed, tau, aux, extracted, verified,
                   frame, wire, asked>>

\* The first entry of real_parents with every claimed index raised by one and
\* the parent proofs kept (fake_parents).
wrong_parents(real_parents) ==
    << [k \in 1 .. Len(real_parents[1]) |->
           <<real_parents[1][k][1] + 1, real_parents[1][k][2]>>] >>

\* The first entry of real_parents with the claimed indices kept and the
\* parent proofs rotated by one position.  (fake_proof_parents of the test
\* takes, for entry i, the proof at position j of the list, j being the index
\* entry i+1 claims; the rotation proper is what is modelled.)
rotated_parents(real_parents) ==
    << [k \in 1 .. Len(real_parents[1]) |->
           <<real_parents[1][k][1],
             real_parents[1][(k % Len(real_parents[1])) + 1][2]>>] >>

\* The verifier is handed the real proof with the wrong parents.
WrongParents ==
    /\ presented # None
    /\ presented[1].kind = "real"
    /\ verified = None
    /\ Len(presented[1].proof.replica_parents) >= 1
    /\ presented' = Some([kind |-> "wrong_parents",
                          proof |-> [presented[1].proof EXCEPT
                              !.replica_parents = wrong_parents(@)]])
    /\ UNCHANGED <<pp, replica_id, data, replica, sealed, tau, aux, extracted, proved,
                   verified, frame, wire, asked>>

\* The verifier is handed the real proof with the parent proofs rotated.
RotateParentProofs ==
    /\ presented # None
    /\ presented[1].kind = "real"
    /\ verified = None
    /\ Len(presented[1].proof.replica_parents) >= 1
    /\ presented' = Some([kind |-> "rotated",
                          proof |-> [presented[1].proof EXCEPT
                              !.replica_parents = rotated_parents(@)]])
    /\ UNCHANGED <<pp, replica_id, data, replica, sealed, tau, aux, extracted, proved,
                   verified, frame, wire, asked>>

\* The verifier is handed the openings of node v as prove's loop body builds
\* them, node 0 included: a proof no call of prove returns.
Forge(v) ==
    /\ sealed = "ok"
    /\ proved = None
    /\ presented = None
    /\ LET e == prove_node(pp, [replica_id |-> replica_id, challenges |-> <<v>>,
                                tau |-> tau], PrivateInputs, v)
       IN  /\ e.ok
           /\ presented' = Some([kind |-> "forged",
                                 proof |-> [replica_nodes |-> <<e.val.replica_node>>,
                                            replica_parents |-> <<e.val.replica_parents>>,
                                            nodes |-> <<e.val.node>>]])
    /\ UNCHANGED <<pp, replica_id, data, replica, sealed, tau, aux, extracted, proved,
                   verified, frame, wire, asked>>

\* The Tau values a verifier may be handed: the sealing's, none, or one whose
\* commitments are exchanged.
TauChoices ==
    IF tau = None THEN {None}
    ELSE {tau, None, Some([comm_d |-> tau[1].comm_r, comm_r |-> tau[1].comm_d])}

\* verify(&pp, &pub_inputs, &proof) on the presented proof.  A proof prove
\* returned is tried with every challenge list under the sealing's Tau and with
\* the prove-time list under every Tau; an altered one with the prove-time
\* list; a forged one with every challenge list.
Verify(cs, t) ==
    /\ presented # None
    /\ verified = None
    /\ \/ presented[1].kind \in {"real", "forged"} /\ t = tau
       \/ presented[1].kind = "real" /\ cs = proved[1].challenges
       \/ presented[1].kind \in {"wrong_parents", "rotated", "tampered"}
             /\ cs = proved[1].challenges /\ t = tau
    /\ verified' = Some([challenges |-> cs, tau |-> t,
                         result |-> verify(pp, [replica_id |-> replica_id,
                                                challenges |-> cs, tau |-> t],
                                           presented[1].proof)])
    /\ UNCHANGED <<pp, replica_id, data, replica, sealed, tau, aux, extracted, proved,
                   presented, frame, wire, asked>>

Next ==
    \/ Replicate
    \/ \E cs \in ChallengeLists(pp.graph.nodes) : Prove(cs)
    \/ WrongParents
    \/ RotateParentProofs
    \/ \E v \in 0 .. (pp.graph.nodes - 1) : Forge(v)
    \/ \E cs \in VerifyLists(pp.graph.nodes), t \in TauChoices : Verify(cs, t)

Spec == Init /\ [][Next]_vars

NextVDE ==
    \/ Replicate
    \/ ExtractAll
    \/ \E v \in 0 .. pp.graph.nodes : Extract(v)

SpecVDE == InitVDE /\ [][NextVDE]_vars

\* ------------------------------------------- replicate, statement by statement
\* The statements of replicate in the order one call runs them: the plaintext
\* tree (402-403), vde::encode (405), the replica tree (407-408), the return
\* value (410-413).
replicate_steps_encode_first == <<"encode", "tree_d", "tree_r", "return">>

replicate_steps == <<"tree_d", "encode", "tree_r", "return">>

\* The statement the call in progress is about to run.
AtStep(name) == frame # None /\ replicate_steps[frame[1].at] = name

\* replicate(&pp, &replica_id, &mut data) is entered: no local is bound yet.
ReplicateCall ==
    /\ sealed = "no"
    /\ frame = None
    /\ frame' = Some([at |-> 1, tree_d |-> None, tree_r |-> None])
    /\ UNCHANGED <<pp, replica_id, data, replica, sealed, tau, aux, extracted, proved,
                   presented, verified, wire, asked>>

\* let tree_d = pp.graph.merkle_tree(data, pp.lambda)?; let comm_d = tree_d.root();
ReplicateTreeD ==
    /\ AtStep("tree_d")
    /\ frame' = Some([frame[1] EXCEPT
                        !.at = @ + 1,
                        !.tree_d = Some(merkle_tree(pp.graph, replica, pp.lambda))])
    /\ UNCHANGED <<pp, replica_id, data, replica, sealed, tau, aux, extracted, proved,
                   presented, verified, wire, asked>>

\* vde::encode(&pp.graph, pp.lambda, pp.sloth_iter, replica_id, data)?;
ReplicateEncode ==
    /\ AtStep("encode")
    /\ LET enc == encode(pp.graph, pp.sloth_iter, replica_id, replica)
       IN  /\ replica' = enc.data
           /\ frame' = IF enc.ok THEN Some([frame[1] EXCEPT !.at = @ + 1]) ELSE None
           /\ sealed' = IF enc.ok THEN sealed ELSE "err"
    /\ UNCHANGED <<pp, replica_id, data, tau, aux, extracted, proved, presented, verified,
                   wire, asked>>

\* let tree_r = pp.graph.merkle_tree(data, pp.lambda)?; let comm_r = tree_r.root();
ReplicateTreeR ==
    /\ AtStep("tree_r")
    /\ frame' = Some([frame[1] EXCEPT
                        !.at = @ + 1,
                        !.tree_r = Some(merkle_tree(pp.graph, replica, pp.lambda))])
    /\ UNCHANGED <<pp, replica_id, data, replica, sealed, tau, aux, extracted, proved,
                   presented, verified, wire, asked>>

\* Ok((Tau::new(comm_d, comm_r), ProverAux::new(tree_d, tree_r)))
ReplicateReturn ==
    /\ AtStep("return")
    /\ tau' = Some([comm_d |-> root(frame[1].tree_d[1]), comm_r |-> root(frame[1].tree_r[1])])
    /\ aux' = Some([tree_d |-> frame[1].tree_d[1], tree_r |-> frame[1].tree_r[1]])
    /\ sealed' = "ok"
    /\ frame' = None
    /\ UNCHANGED <<pp, replica_id, data, replica, extracted, proved, presented, verified,
                   wire, asked>>

NextReplicate ==
    \/ ReplicateCall
    \/ ReplicateTreeD
    \/ ReplicateEncode
    \/ ReplicateTreeR
    \/ ReplicateReturn

SpecReplicate == InitVDE /\ [][NextReplicate]_vars

\* ------------------------------------------------------- the proof as data
\* proof.serialize() on the proof prove returned.
Serialize ==
    /\ presented # None
    /\ wire = None
    /\ asked = None
    /\ wire' = Some(Proof_serialize(presented[1].proof))
    /\ UNCHANGED <<pp, replica_id, data, replica, sealed, tau, aux, extracted, proved,
                   presented, verified, frame, asked>>

\* dp with the orientation flags of its path replaced.
Reoriented(dp, flags) ==
    [dp EXCEPT !.proof.path =
        [j \in 1 .. Len(dp.proof.path) |-> [dp.proof.path[j] EXCEPT !.is_right = flags[j]]]]

\* The DataProofs a caller may ask about: a data opening of the presented
\* proof under every orientation of its path.
AskedProofs ==
    IF presented = None THEN {}
    ELSE UNION { { Reoriented(presented[1].proof.nodes[i], flags) :
                     flags \in [1 .. Len(presented[1].proof.nodes[i].proof.path) -> BOOLEAN] } :
                 i \in 1 .. Len(presented[1].proof.nodes) }

\* The challenges asked about: every index the path can spell and as many
\* again with the next higher bit set.
AskedChallenges(dp) == 0 .. (Power(2, Len(dp.proof.path) + 1) - 1)

\* dp.proves_challenge(c)
ProvesChallenge(dp, c) ==
    /\ asked = None
    /\ wire = None
    /\ asked' = Some([path |-> dp.proof.path, challenge |-> c,
                      ret |-> proves_challenge(dp, c)])
    /\ UNCHANGED <<pp, replica_id, data, replica, sealed, tau, aux, extracted, proved,
                   presented, verified, frame, wire>>

NextProofData ==
    \/ Replicate
    \/ \E cs \in ChallengeLists(pp.graph.nodes) : Prove(cs)
    \/ Serialize
    \/ \E dp \in AskedProofs : \E c \in AskedChallenges(dp) : ProvesChallenge(dp, c)

SpecProofData == Init /\ [][NextProofData]_vars

\* --------------------------------------------------- tampered data fields
\* The key verify derives for an entry of replica_parents.
parents_key(rps) == kdf(fold_parent_data(into_bytes(replica_id), rps), pp.graph.degree)

\* The first position of prf with the data field of its k-th parent entry set
\* to x and the data field of its replica node set to y; every Merkle proof is
\* kept as it is.
tampered_data(prf, k, x, y) ==
    [prf EXCEPT !.replica_parents[1][k][2].data = x,
                !.replica_nodes[1].data = y]

\* The verifier is handed the real proof with data fields changed.  A changed
\* parent value is one that changes the key: kdf stands for a hash, and the
\* collisions of its scaled form are not inputs anyone can find.
Tamper(k, x, y) ==
    /\ presented # None
    /\ presented[1].kind = "real"
    /\ verified = None
    /\ Len(presented[1].proof.replica_parents) >= 1
    /\ k <= Len(presented[1].proof.replica_parents[1])
    /\ LET prf == presented[1].proof
           changed == tampered_data(prf, k, x, y)
       IN  /\ changed # prf
           /\ x # prf.replica_parents[1][k][2].data =>
                 parents_key(changed.replica_parents[1]) # parents_key(prf.replica_parents[1])
           /\ presented' = Some([kind |-> "tampered", proof |-> changed])
    /\ UNCHANGED <<pp, replica_id, data, replica, sealed, tau, aux, extracted, proved,
                   verified, frame, wire, asked>>

\* The challenge list prove was called with, once it was.
ProvedLists == IF proved = None THEN {} ELSE {proved[1].challenges}

NextTamper ==
    \/ Replicate
    \/ \E cs \in ChallengeLists(pp.graph.nodes) : Prove(cs)
    \/ \E k \in 1 .. pp.graph.degree, x \in Fr, y \in Fr : Tamper(k, x, y)
    \/ \E cs \in ProvedLists : Verify(cs, tau)

SpecTamper == Init /\ [][NextTamper]_vars

\* ------------------------------------------------------------------ claims
N == pp.graph.nodes

\* verify has run on a proof that prove returned, unaltered.
RealVerified ==
    /\ verified # None
    /\ presented # None
    /\ presented[1].kind = "real"

InRange(cs) == \A i \in 1 .. Len(cs) : 0 < cs[i] /\ cs[i] < N

\* C1 (completeness): a proof prove returned for challenges all within
\* 0 < c < N, over the replica and ProverAux of replicate, makes verify with
\* the same public params and public inputs return true.
C1_Completeness ==
    (/\ RealVerified
     /\ InRange(proved[1].challenges)
     /\ verified[1].challenges = proved[1].challenges
     /\ verified[1].tau = tau)
    => verified[1].result = "true"

C1_Witness ==
    /\ RealVerified
    /\ N = 3
    /\ proved[1].challenges = <<1, 2>>
    /\ verified[1].challenges = <<1, 2>>
    /\ verified[1].tau = tau
    /\ verified[1].result = "true"

\* Some position both lists have holds different challenges.
DiffersAtCommonPosition(cs, ds) ==
    \E i \in 1 .. Len(cs) : i <= Len(ds) /\ cs[i] # ds[i]

\* C2 as claimed (challenge binding): verify on an honest proof with any
\* challenge list other than the prove-time one returns false.
C2_AnyOtherListRejected ==
    (RealVerified /\ verified[1].challenges # proved[1].challenges)
    => verified[1].result = "false"

\* C2 as amended: verify on an honest proof for challenges all within
\* 0 < c < N, with a challenge list that differs from the prove-time list at a
\* position both lists have, returns false.
C2_ChallengeBinding ==
    (/\ RealVerified
     /\ InRange(proved[1].challenges)
     /\ DiffersAtCommonPosition(verified[1].challenges, proved[1].challenges))
    => verified[1].result = "false"

C2_Witness ==
    /\ RealVerified
    /\ proved[1].challenges = <<1, 2>>
    /\ verified[1].challenges = <<1, 1>>
    /\ verified[1].result = "false"

\* The parents of node c are not all the same node.
ParentsDiffer(c) ==
    \E j, k \in 1 .. Len(parents(pp.graph, c)) :
        parents(pp.graph, c)[j] # parents(pp.graph, c)[k]

\* C3 (parent binding): from an honest proof whose first challenge has parents
\* that are not all the same node, verify with the prove-time inputs returns
\* false both when the claimed parent indices are raised by one and when the
\* parent proofs are rotated under the unchanged indices.
C3_ParentBinding ==
    (/\ verified # None
     /\ presented[1].kind \in {"wrong_parents", "rotated"}
     /\ verified[1].challenges = proved[1].challenges
     /\ InRange(proved[1].challenges)
     /\ ParentsDiffer(proved[1].challenges[1]))
    => verified[1].result = "false"

C3_Witness ==
    /\ verified # None
    /\ presented[1].kind = "rotated"
    /\ Len(proved[1].challenges) = 1
    /\ ParentsDiffer(proved[1].challenges[1])
    /\ verified[1].result = "false"

\* The Merkle roots a proof carries, replica side and data side.
ReplicaRoots(prf, k) ==
    {prf.replica_nodes[i].proof.root : i \in 1 .. k} \cup
    {prf.replica_parents[i][j][2].proof.root :
        i \in 1 .. k, j \in 1 .. degree}

DataRoots(prf, k) == {prf.nodes[i].proof.root : i \in 1 .. k}

\* C4 (binding to the public commitments): verify, on at least one challenge,
\* returns true only if Tau is present, every replica-node and parent Merkle
\* proof has root comm_r and every node Merkle proof has root comm_d.
C4_BoundToTau ==
    (verified # None /\ verified[1].result = "true" /\ verified[1].challenges # <<>>)
    => /\ verified[1].tau # None
       /\ \A r \in ReplicaRoots(presented[1].proof, Len(verified[1].challenges)) :
              r = verified[1].tau[1].comm_r
       /\ \A r \in DataRoots(presented[1].proof, Len(verified[1].challenges)) :
              r = verified[1].tau[1].comm_d

\* Every node of the buffer holds a canonical field element.
Canonical(bytes) ==
    \A v \in 0 .. (N - 1) : try_from_bytes(data_at_node(bytes, v, lambda).val).ok

\* C5 (round trip): extract_all on the replica that replicate made of a copy
\* of canonical data, with the same public params and replica_id, returns
\* exactly the data.
C5_RoundTrip ==
    (/\ extracted # None
     /\ extracted[1].op = "extract_all"
     /\ Canonical(data))
    => extracted[1].ret = Ok(data)

C5_Witness ==
    /\ extracted # None
    /\ extracted[1].op = "extract_all"
    /\ N = 3
    /\ data = <<1, 0, 3, 0, 0, 1>>
    /\ replica # data
    /\ extracted[1].ret = Ok(data)

\* C6 (single-node extraction): for 1 <= i < N, extract on the replica returns
\* the bytes of plaintext node i, and the replica is still the buffer
\* replicate produced.
C6_ExtractNode ==
    (/\ extracted # None
     /\ extracted[1].op = "extract"
     /\ 1 <= extracted[1].node
     /\ extracted[1].node < N)
    => /\ extracted[1].ret = data_at_node(data, extracted[1].node, lambda)
       /\ replica = replicate(pp, replica_id, data).data

C6_Witness ==
    /\ extracted # None
    /\ extracted[1].op = "extract"
    /\ N = 3
    /\ extracted[1].node = 2
    /\ data = <<1, 0, 3, 0, 0, 1>>
    /\ data_at_node(replica, 2, lambda) # data_at_node(data, 2, lambda)
    /\ extracted[1].ret = Ok(<<0, 1>>)

C8_VerifySoft ==
    (/\ verified # None
     /\ Len(presented[1].proof.replica_nodes) >= Len(verified[1].challenges)
     /\ Len(presented[1].proof.replica_parents) >= Len(verified[1].challenges)
     /\ Len(presented[1].proof.nodes) >= Len(verified[1].challenges))
    => /\ verified[1].result \in {"true", "false"}
       /\ (\E i \in 1 .. Len(verified[1].challenges) : verified[1].challenges[i] = 0)
             => verified[1].result = "false"

\* Positions of a challenge list whose entry is a multiple of N.
ZeroPositions(cs) == {i \in 1 .. Len(cs) : cs[i] % N = 0}

ReplicaValue(v) == try_from_bytes(data_at_node(replica, v, lambda).val).val

\* C10 (proof shape): a proof prove returns for k challenges has three vectors
\* of k entries; entry i of replica_parents has degree(G) entries whose indices
\* are the graph's parents of the challenged node in graph order, each with the
\* opening of that parent in the replica tree and the replica's value there.
C10_ProofShape ==
    (proved # None /\ proved[1].status = "ok") =>
        LET cs == proved[1].challenges
            prf == proved[1].proof
        IN  /\ Len(prf.replica_nodes) = Len(cs)
            /\ Len(prf.replica_parents) = Len(cs)
            /\ Len(prf.nodes) = Len(cs)
            /\ \A i \in 1 .. Len(cs) :
                  LET ps == parents(pp.graph, cs[i] % N)
                  IN  /\ Len(prf.replica_parents[i]) = pp.graph.degree
                      /\ \A j \in 1 .. pp.graph.degree :
                            /\ prf.replica_parents[i][j][1] = ps[j]
                            /\ prf.replica_parents[i][j][2] =
                                  [proof |-> gen_proof(aux[1].tree_r, ps[j]),
                                   data |-> ReplicaValue(ps[j])]

C10_Witness ==
    /\ proved # None
    /\ proved[1].status = "ok"
    /\ N = 3
    /\ proved[1].challenges = <<2, 1>>
    /\ Len(proved[1].proof.replica_parents) = 2
    /\ proved[1].proof.replica_parents[1][1][1] # proved[1].proof.replica_parents[1][2][1]

\* ---------------------------------------------------------------------- C11
PlainTree == merkle_tree(pp.graph, data, pp.lambda)
ReplicaTree == merkle_tree(pp.graph, replica, pp.lambda)

\* One call of replicate, run statement by statement, ends as the one-step
\* replicate of the other specifications does.
ReplicateStepsAgree ==
    (frame = None /\ sealed # "no") =>
        LET r == replicate(pp, replica_id, data)
        IN  replica = r.data /\ tau = r.tau /\ aux = r.aux /\ (sealed = "ok") = r.ok

\* C11: replicate commits in order.  No node of the buffer is encoded before
\* the plaintext tree is built, the tree built first is the tree of the buffer
\* as the caller handed it in, and after a successful call comm_d / tree_d are
\* the root / tree of that plaintext and comm_r / tree_r the root / tree of
\* the buffer as the call left it.
C11_ReplicateOrder ==
    /\ (sealed = "no" /\ (frame = None \/ frame[1].tree_d = None)) => replica = data
    /\ (frame # None /\ frame[1].tree_d # None) => frame[1].tree_d[1] = PlainTree
    /\ (sealed = "ok" /\ frame = None) =>
          /\ tau[1].comm_d = root(PlainTree)
          /\ aux[1].tree_d = PlainTree
          /\ tau[1].comm_r = root(ReplicaTree)
          /\ aux[1].tree_r = ReplicaTree

\* A call returned successfully on a buffer the encoding changed.
C11_Witness ==
    /\ sealed = "ok"
    /\ frame = None
    /\ replica # data
    /\ tau # None
    /\ tau[1].comm_d # tau[1].comm_r

\* ---------------------------------------------------------------------- C12
\* The layout the claim gives one position: the replica node's DataProof, per
\* parent four bytes of index and the parent's DataProof, the node's DataProof.
ClaimedParents(rps) ==
    Concat([k \in 1 .. Len(rps) |-> write_u32(rps[k][1]) \o DataProof_serialize(rps[k][2])])

ClaimedLayout(prf) ==
    Concat([i \in 1 .. Len(prf.nodes) |->
               (DataProof_serialize(prf.replica_nodes[i]) \o ClaimedParents(prf.replica_parents[i]))
                  \o DataProof_serialize(prf.nodes[i])])

\* Length of one serialized DataProof of the presented proof.
DataProofLen(prf) ==
    IF prf.nodes = <<>> THEN 0 ELSE Len(DataProof_serialize(prf.nodes[1]))

\* C12: the serialized proof is, position by position, serialize(replica_nodes[i]),
\* then per parent exactly four bytes of little-endian index followed by the
\* parent's DataProof, then serialize(nodes[i]); nothing else is emitted, so
\* its length is k * (2 * |DataProof| + degree * (4 + |DataProof|)).
C12_SerializedLayout ==
    (wire # None /\ wire[1].status = "ok") =>
        LET prf == presented[1].proof
            k == Len(prf.nodes)
        IN  /\ wire[1].out = ClaimedLayout(prf)
            /\ Len(wire[1].out) =
                  k * (2 * DataProofLen(prf) + pp.graph.degree * (U32Bytes + DataProofLen(prf)))

\* What the code emits: the claimed layout with four zero bytes ahead of every
\* parent index.
WrittenParents(rps) ==
    Concat([k \in 1 .. Len(rps) |->
               ([b \in 1 .. U32Bytes |-> 0] \o write_u32(rps[k][1]))
                  \o DataProof_serialize(rps[k][2])])

SerializedAsWritten ==
    (wire # None /\ wire[1].status = "ok") =>
        LET prf == presented[1].proof
            k == Len(prf.nodes)
        IN  /\ wire[1].out =
                  Concat([i \in 1 .. k |->
                     (DataProof_serialize(prf.replica_nodes[i])
                        \o WrittenParents(prf.replica_parents[i]))
                        \o DataProof_serialize(prf.nodes[i])])
            /\ Len(wire[1].out) =
                  k * (2 * DataProofLen(prf)
                       + pp.graph.degree * (2 * U32Bytes + DataProofLen(prf)))

\* ---------------------------------------------------------------------- C14
\* Bit j of c, the leaf level being j = 0.
Bit(c, j) == (c \div Power(2, j)) % 2

\* C14: proves_challenge(c) is true exactly when at every level j of the path
\* the is_right flag is set if and only if bit j of c is 1, and the bits of c
\* at or above the path length do not change the answer.
C14_ProvesChallenge ==
    asked # None =>
        LET path == asked[1].path
            c == asked[1].challenge
            low == c % Power(2, Len(path))
        IN  /\ asked[1].ret = (\A j \in 1 .. Len(path) : path[j].is_right = (Bit(c, j - 1) = 1))
            /\ asked[1].ret = path_matches(path, low)
            /\ asked[1].ret = path_matches(path, low + Power(2, Len(path)))

\* proves_challenge answered true for a two-level path whose flags differ and
\* a challenge with a bit set above the path.
C14_Witness ==
    /\ asked # None
    /\ Len(asked[1].path) = 2
    /\ asked[1].ret
    /\ asked[1].challenge >= 4
    /\ asked[1].path[2].is_right
    /\ ~asked[1].path[1].is_right

\* ---------------------------------------------------------------------- C13
\* The key of position i, from the replica_id bytes and the parents' data
\* bytes in list order.
LabelKey(prf, i) ==
    kdf(into_bytes(replica_id)
           \o Concat([k \in 1 .. Len(prf.replica_parents[i]) |->
                         into_bytes(prf.replica_parents[i][k][2].data)]),
        pp.graph.degree)

\* C13: whenever verify returns true, at every challenge position the replica
\* node's data decoded under the key of the listed parents' data equals the
\* node's data, and that value is the leaf the node's Merkle proof validates.
C13_LabelEquation ==
    (verified # None /\ verified[1].result = "true") =>
        LET prf == presented[1].proof
        IN  \A i \in 1 .. Len(verified[1].challenges) :
                LET x == sloth_decode(LabelKey(prf, i), prf.replica_nodes[i].data,
                                      pp.sloth_iter)
                IN  /\ x = prf.nodes[i].data
                    /\ prf.nodes[i].proof.leaf = LeafHash(into_bytes(x))
                    /\ fold_path(prf.nodes[i].proof.leaf, prf.nodes[i].proof.path)
                          = prf.nodes[i].proof.root

\* verify accepted a proof of two positions whose decoding changes the value.
C13_Witness ==
    /\ verified # None
    /\ verified[1].result = "true"
    /\ Len(verified[1].challenges) = 2
    /\ presented[1].proof.replica_nodes[1].data # presented[1].proof.nodes[1].data

\* ---------------------------------------------------------------------- C15
\* dp's data is the leaf dp's Merkle proof opens at index v.
OpensData(dp, v) ==
    /\ validate(dp.proof, v)
    /\ dp.proof.leaf = LeafHash(into_bytes(dp.data))

\* C15: whenever verify returns true, every replica node's data is the leaf
\* its proof opens at the challenge and every parent entry's data is the leaf
\* its proof opens at the parent index; a proof whose replica-node and parent
\* data fields were changed with the Merkle proofs left intact is rejected.
C15_DataBoundToOpening ==
    (verified # None /\ verified[1].result = "true") =>
        LET prf == presented[1].proof
            cs == verified[1].challenges
        IN  /\ presented[1].kind # "tampered"
            /\ \A i \in 1 .. Len(cs) :
                  /\ OpensData(prf.replica_nodes[i], cs[i])
                  /\ \A k \in 1 .. Len(prf.replica_parents[i]) :
                        OpensData(prf.replica_parents[i][k][2], prf.replica_parents[i][k][1])

====
